---- MODULE Spec2Model ----
(***************************************************************************)
(* Model of the multi-tenant authorization gateway                         *)
(* (examples/multi-tenant/app.py): bearer-token authentication, the OPA    *)
(* decision client, and the tenant-scoped in-memory resource store.        *)
(*                                                                         *)
(* Requests are served by worker threads (Flask's development server is    *)
(* threaded), so the handlers of two requests interleave at every access   *)
(* to the module-level globals `resources` and `next_resource_id`, and     *)
(* while a thread is blocked in requests.post().                           *)
(*                                                                         *)
(* The standalone OPAClient of examples/opa-simple/app.py is modelled next   *)
(* to it, with a specification of its own (ClientSpec): it shares no state  *)
(* with the gateway.                                                        *)
(*                                                                         *)
(* Python values that may have several types (the "result" member of the   *)
(* OPA reply, a resource name) are written as their Python repr, e.g.      *)
(* "True", "None", "'no'", "0".                                            *)
(***************************************************************************)
EXTENDS Integers, Sequences, FiniteSets, TLC

(* ------------------------------ bounds -------------------------------- *)

\* Total number of requests served in one run of the model.
MaxRequests == 2

\* The worker threads that serve requests concurrently. The requests of
\* thread Observed are arbitrary. The other thread is the concurrent
\* traffic that can interfere with them through the store: requests that
\* authenticate and go on to create, update or delete. (A request that is
\* rejected, or only reads, leaves nothing behind for another request to
\* see, so the two threads need not both range over those.)
Threads == {"t1", "t2"}

Observed == "t1"

(* ------------------------- module-level data -------------------------- *)

Absent == "<absent>"
NoUser == "<none>"

\* app.py:18-59 (the password hash and display name play no part in the
\* request pipeline; login is modelled separately)
users ==
  [u \in {"alice", "bob", "charlie", "diana", "root"} |->
     CASE u = "alice"   -> [id |-> 1, username |-> u, tenant |-> "acme",   role |-> "admin"]
       [] u = "bob"     -> [id |-> 2, username |-> u, tenant |-> "acme",   role |-> "user"]
       [] u = "charlie" -> [id |-> 3, username |-> u, tenant |-> "globex", role |-> "admin"]
       [] u = "diana"   -> [id |-> 4, username |-> u, tenant |-> "globex", role |-> "user"]
       [] u = "root"    -> [id |-> 0, username |-> u, tenant |-> "system", role |-> "superadmin"]]

\* app.py:61-80
tenants ==
  [t \in {"acme", "globex", "system"} |->
     CASE t = "acme"   -> [id |-> t, name |-> "Acme Corporation", parent |-> "None", active |-> TRUE]
       [] t = "globex" -> [id |-> t, name |-> "Globex Inc",       parent |-> "None", active |-> TRUE]
       [] t = "system" -> [id |-> t, name |-> "System",           parent |-> "None", active |-> TRUE]]

\* app.py:82-87: the four seeded resource dicts, in list order. The dicts
\* are objects: the list holds references (indices into `heap`).
SeedResources ==
  << [id |-> 1, tenant |-> "acme",   name |-> "Acme Q1 Report",    type |-> "document"],
     [id |-> 2, tenant |-> "acme",   name |-> "Acme Strategy",     type |-> "document"],
     [id |-> 3, tenant |-> "globex", name |-> "Globex Financials", type |-> "spreadsheet"],
     [id |-> 4, tenant |-> "globex", name |-> "Globex Roadmap",    type |-> "document"] >>

\* app.py:89
FirstResourceId == 5

(* ------------------------------ inputs -------------------------------- *)

\* The Authorization header of a request. hdr: "none" (no header), "other"
\* (a header that does not start with 'Bearer '), "bearer". For a bearer
\* token: sig is the outcome of the HS256 signature check against
\* SECRET_KEY, exp the position of the exp claim relative to the time of
\* verification, and username/tenant/role the claims it carries.
Token(hdr, sig, exp, username, tenant, role) ==
  [hdr |-> hdr, sig |-> sig, exp |-> exp,
   username |-> username, tenant |-> tenant, role |-> role]

\* The token login issues for user u (app.py:174-179), seen before (exp =
\* "future") or after (exp = "past") its 24 hours have run out.
IssuedToken(u, exp) ==
  Token("bearer", "ok", exp, u, users[u].tenant, users[u].role)

TokenUsers == {"bob", "charlie", "root"}

Tokens ==
     { Token("none",  Absent, Absent, Absent, Absent, Absent),
       Token("other", Absent, Absent, Absent, Absent, Absent) }
  \cup { IssuedToken(u, "future") : u \in TokenUsers }
  \cup { IssuedToken("bob", "past"),
         \* wrong signature, with and without a lapsed expiry
         Token("bearer", "bad", "future", "bob", "acme", "user"),
         Token("bearer", "bad", "past", "bob", "acme", "user"),
         \* signed with SECRET_KEY, claims differing from the user record
         Token("bearer", "ok", "future", "bob", "globex", "superadmin"),
         \* signed with SECRET_KEY, for a name the directory does not hold
         Token("bearer", "ok", "future", "mallory", "acme", "admin"),
         \* signed with SECRET_KEY, no username claim
         Token("bearer", "ok", "future", Absent, "acme", "admin") }

\* What requests.post() ends in: a transport failure (err), or an HTTP
\* reply with a status and a body. The body is described by the shape of
\* its JSON text and, for an object, by the repr of its "result" member.
Reply(err, status, shape, result) ==
  [err |-> err, status |-> status, shape |-> shape, result |-> result]

ResultValues == {"True", "False", "'no'", "0", "None"}

Replies ==
     { Reply("ConnectionError", 0, Absent, Absent),
       Reply("Timeout", 0, Absent, Absent),
       Reply("", 500, "object", Absent),
       Reply("", 204, "notjson", Absent),
       Reply("", 200, "notjson", Absent),
       Reply("", 200, "list", Absent),
       Reply("", 200, "scalar", Absent),
       Reply("", 200, "object", Absent) }
  \cup { Reply("", 200, "object", v) : v \in ResultValues }

\* request.json of a POST/PUT: shape "null" is the JSON text `null` (data is
\* None); otherwise an object with the members that are not Absent.
Body(shape, name, type, tenant, id) ==
  [shape |-> shape, name |-> name, type |-> type, tenant |-> tenant, id |-> id]

Bodies ==
  { Body("object", "'n1'", "'t1'", "globex", "1"),
    Body("object", Absent, Absent, Absent, Absent),
    Body("null", Absent, Absent, Absent, Absent) }

\* The <int:resource_id> of the URL: two seeded ids, the first id a create
\* allocates, and an id no resource ever has.
ResourceIds == {0, 1, 3, FirstResourceId}

Ops == {"list", "create", "get", "update", "delete"}

TokensOf(t) ==
  IF t = Observed THEN Tokens
  ELSE { IssuedToken("charlie", "future") }

\* The routes of /api/tenants (app.py:275, 284).
TenantOps == {"tenants", "tenant"}

OpsOf(t) ==
  IF t = Observed THEN Ops \cup TenantOps ELSE {"create", "update", "delete"}

\* The <tenant_id> of the URL: the caller's own tenant, another one, and an
\* id the directory does not hold.
TenantIds == {"acme", "globex", "initech"}

\* hashlib.sha256(p.encode()).hexdigest(), as a term over the plaintext.
Sha256(p) == <<"sha256", p>>

\* The 'password' member of the user records (app.py:22, 30, 38, 46, 54).
passwords ==
  [u \in DOMAIN users |->
     CASE u = "alice"   -> Sha256("alice123")
       [] u = "bob"     -> Sha256("bob123")
       [] u = "charlie" -> Sha256("charlie123")
       [] u = "diana"   -> Sha256("diana123")
       [] u = "root"    -> Sha256("root123")]

\* request.json of POST /api/auth/login: shape "null" is the JSON text
\* `null`; otherwise an object with the members that are not Absent.
Cred(shape, username, password) ==
  [shape |-> shape, username |-> username, password |-> password]

NoCred == Cred(Absent, Absent, Absent)

\* Every user of the directory with the right password and with a wrong
\* one; another user's password; no password; a name the directory does
\* not hold; no username; a body that is not an object.
Creds ==
     { Cred("object", u, u \o "123") : u \in DOMAIN users }
  \cup { Cred("object", u, "wrong") : u \in DOMAIN users }
  \cup { Cred("object", "alice", "bob123"),
         Cred("object", "alice", Absent),
         Cred("object", "mallory", "alice123"),
         Cred("object", "mallory", Absent),
         Cred("object", Absent, "alice123"),
         Cred("null", Absent, Absent) }

CredsOf(t) == IF t = Observed THEN Creds ELSE {}

RepliesOf(t) ==
  IF t = Observed THEN Replies
  ELSE { Reply("", 200, "object", "True"), Reply("", 200, "object", "False") }

BodiesOf(t) ==
  IF t = Observed THEN Bodies
  ELSE { Body("object", "'n2'", "'t2'", Absent, Absent) }

ResourceIdsOf(t) == IF t = Observed THEN ResourceIds ELSE {1, FirstResourceId}

(* ------------------------------- state -------------------------------- *)

VARIABLES
  heap,              \* the resource dicts ever allocated, by reference
  resources,         \* the global list `resources`: references into heap
  next_resource_id,  \* the global counter
  thr,               \* per worker thread: the request it is serving
  nreq,              \* requests accepted so far
  writes,            \* per worker thread: how many steps of its request
                     \* have changed the store or the counter (history)
  listed,            \* the last list answer, while the store is as it was
                     \* when it was given, and how many answers in a row
                     \* that caller has been given since (history)
  deleted,           \* the ids whose delete was answered 200 (history)
  sequential,        \* no two requests have been in service at once so
                     \* far (history)
  client             \* the call the standalone OPAClient of
                     \* examples/opa-simple/app.py is in

vars ==
  <<heap, resources, next_resource_id, thr, nreq, writes, listed, deleted,
    sequential, client>>

store == <<heap, resources, next_resource_id>>

NoReply == Reply(Absent, 0, Absent, Absent)
NoBody == Body(Absent, Absent, Absent, Absent, Absent)
NoToken == Token(Absent, Absent, Absent, Absent, Absent, Absent)
NoResource == [id |-> 0, tenant |-> Absent, name |-> Absent, type |-> Absent]
NoQuery ==
  [user |-> [id |-> 0, username |-> Absent, tenant |-> Absent, role |-> Absent],
   action |-> Absent, resource |-> NoResource]

Idle ==
  [pc |-> "idle", op |-> Absent, tok |-> NoToken, user |-> NoUser,
   rid |-> 0, res |-> 0, query |-> NoQuery, sent |-> 0, reply |-> NoReply,
   decision |-> Absent, body |-> NoBody, newres |-> NoResource,
   loaded |-> 0, newlist |-> <<>>, status |-> 0, error |-> Absent,
   resp |-> <<>>, tid |-> Absent, cred |-> NoCred, issued |-> NoToken]

NoListed == [user |-> NoUser, resp |-> <<>>, n |-> 0]

\* The OPAClient between two calls.
ClientIdle ==
  [pc |-> "idle", call |-> Absent, user |-> Absent, action |-> Absent,
   resource |-> Absent, reply |-> NoReply, raised |-> "", value |-> Absent]

Init ==
  /\ heap = SeedResources
  /\ resources = [i \in 1..Len(SeedResources) |-> i]
  /\ next_resource_id = FirstResourceId
  /\ thr = [t \in Threads |-> Idle]
  /\ nreq = 0
  /\ writes = [t \in Threads |-> 0]
  /\ listed = NoListed
  /\ deleted = {}
  /\ sequential = TRUE
  /\ client = ClientIdle

(* ------------------------ authentication ------------------------------ *)

\* Mutant of JwtDecode: the exp claim is not verified.
JwtDecodeNoExpiry(tok) ==
  IF tok.sig # "ok" THEN "InvalidTokenError" ELSE "ok"

\* jwt.decode(token, SECRET_KEY, algorithms=['HS256']) (app.py:103): the
\* signature is verified before the claims, so a token with a wrong
\* signature is an InvalidSignatureError whatever its exp claim says.
\* "ok" stands for a returned payload.
JwtDecode(tok) ==
  IF tok.sig # "ok" THEN "InvalidTokenError"
  ELSE IF tok.exp = "past" THEN "ExpiredSignatureError"
  ELSE "ok"

\* Mutant of RequireAuth: the handler is called without the check that the
\* directory holds the token's username.
RequireAuthNoLookup(tok) ==
  IF tok.hdr # "bearer"
  THEN [status |-> 401, error |-> "No token provided", user |-> NoUser]
  ELSE IF tok.sig # "ok"
  THEN [status |-> 401, error |-> "Invalid token", user |-> NoUser]
  ELSE IF tok.exp = "past"
  THEN [status |-> 401, error |-> "Token expired", user |-> NoUser]
  ELSE IF tok.username = Absent
  THEN [status |-> 500, error |-> "KeyError", user |-> NoUser]
  ELSE [status |-> 0, error |-> Absent, user |-> tok.username]

\* Mutant of RequireAuth: the test of the Authorization header is missing,
\* so None.split is an AttributeError and any other header is decoded.
RequireAuthNoHeaderCheck(tok) ==
  IF tok.hdr = "none"
  THEN [status |-> 500, error |-> "AttributeError", user |-> NoUser]
  ELSE IF tok.sig # "ok"
  THEN [status |-> 401, error |-> "Invalid token", user |-> NoUser]
  ELSE IF tok.exp = "past"
  THEN [status |-> 401, error |-> "Token expired", user |-> NoUser]
  ELSE IF tok.username = Absent
  THEN [status |-> 500, error |-> "KeyError", user |-> NoUser]
  ELSE IF tok.username \notin DOMAIN users
  THEN [status |-> 401, error |-> "User not found", user |-> NoUser]
  ELSE [status |-> 0, error |-> Absent, user |-> tok.username]

\* Mutant of RequireAuth: the principal is resolved from the role claim of
\* the token, not from its username.
RequireAuthFromClaims(tok) ==
  IF tok.hdr # "bearer"
  THEN [status |-> 401, error |-> "No token provided", user |-> NoUser]
  ELSE IF JwtDecode(tok) = "ExpiredSignatureError"
  THEN [status |-> 401, error |-> "Token expired", user |-> NoUser]
  ELSE IF JwtDecode(tok) = "InvalidTokenError"
  THEN [status |-> 401, error |-> "Invalid token", user |-> NoUser]
  ELSE IF tok.username = Absent
  THEN [status |-> 500, error |-> "KeyError", user |-> NoUser]
  ELSE IF tok.username \notin DOMAIN users
  THEN [status |-> 401, error |-> "User not found", user |-> NoUser]
  ELSE LET m == { u \in DOMAIN users : users[u].role = tok.role }
       IN  [status |-> 0, error |-> Absent,
            user |-> IF m # {} THEN CHOOSE u \in m : TRUE ELSE tok.username]

\* The body of `decorated` up to the call of the handler (app.py:94-114).
\* status 0: the handler is called with g.user = users[user]. A payload
\* without 'username' raises KeyError, which neither except clause
\* catches: the request ends in Flask's 500 response.
RequireAuth(tok) ==
  IF tok.hdr # "bearer"
  THEN [status |-> 401, error |-> "No token provided", user |-> NoUser]
  ELSE IF JwtDecode(tok) = "ExpiredSignatureError"
  THEN [status |-> 401, error |-> "Token expired", user |-> NoUser]
  ELSE IF JwtDecode(tok) = "InvalidTokenError"
  THEN [status |-> 401, error |-> "Invalid token", user |-> NoUser]
  ELSE IF tok.username = Absent
  THEN [status |-> 500, error |-> "KeyError", user |-> NoUser]
  ELSE IF tok.username \notin DOMAIN users
  THEN [status |-> 401, error |-> "User not found", user |-> NoUser]
  ELSE [status |-> 0, error |-> Absent, user |-> tok.username]

(* ------------------------- the decision client ------------------------ *)

\* Python truth value of a value given by its repr.
Truthy(v) == v \notin {"False", "None", "0", "''", "[]", "{}"}

\* input_data of check_opa_permission (app.py:121-130): `resource` is the
\* snapshot dict as it reads when the request is sent, or the synthesized
\* {'tenant': <caller's tenant>} when the handler passes none.
InputData(user, action, resource) ==
  [user |-> [id |-> users[user].id, username |-> users[user].username,
             tenant |-> users[user].tenant, role |-> users[user].role],
   action |-> action,
   resource |-> IF resource = NoResource
                THEN [NoResource EXCEPT !.tenant = users[user].tenant]
                ELSE resource]

\* Mutant of CheckOpaPermission: the except clause returns True (fail
\* open) when OPA cannot be reached.
CheckOpaPermissionFailOpen(reply) ==
  IF reply.err # ""
  THEN [raised |-> "", value |-> "True"]
  ELSE IF reply.status # 200 \/ reply.shape = "notjson"
  THEN [raised |-> "", value |-> "False"]
  ELSE IF reply.shape # "object"
  THEN [raised |-> "AttributeError", value |-> Absent]
  ELSE IF reply.result = Absent
  THEN [raised |-> "", value |-> "False"]
  ELSE [raised |-> "", value |-> reply.result]

\* What check_opa_permission does with the outcome of requests.post()
\* (app.py:132-149): raised is "" when it returns `value`, else the name of
\* the exception that leaves it. response.json() on a body that is not JSON
\* raises requests' JSONDecodeError, a RequestException, which the except
\* clause turns into False; .get on a list or a scalar is an
\* AttributeError, which it does not catch.
CheckOpaPermission(reply) ==
  IF reply.err # ""
  THEN [raised |-> "", value |-> "False"]
  ELSE IF reply.status # 200
  THEN [raised |-> "", value |-> "False"]
  ELSE IF reply.shape = "notjson"
  THEN [raised |-> "", value |-> "False"]
  ELSE IF reply.shape # "object"
  THEN [raised |-> "AttributeError", value |-> Absent]
  ELSE IF reply.result = Absent
  THEN [raised |-> "", value |-> "False"]
  ELSE [raised |-> "", value |-> reply.result]

(* -------------------------- the resource store ------------------------ *)

\* next((r for r in resources if r['id'] == resource_id), None): the
\* reference of the first dict of the list with that id, 0 for None.
RECURSIVE FindResource(_, _, _)
FindResource(list, h, rid) ==
  IF list = <<>> THEN 0
  ELSE IF h[Head(list)].id = rid THEN Head(list)
  ELSE FindResource(Tail(list), h, rid)

\* Mutant of Accessible: every admin role sees the whole list.
AccessibleToAnyAdmin(user, list, h) ==
  IF users[user].role \in {"admin", "superadmin"}
  THEN list
  ELSE SelectSeq(list, LAMBDA o : h[o].tenant = users[user].tenant)

\* The list list_resources serialises (app.py:195-198).
Accessible(user, list, h) ==
  IF users[user].role = "superadmin"
  THEN list
  ELSE SelectSeq(list, LAMBDA o : h[o].tenant = users[user].tenant)

\* jsonify of a list of dicts: the dicts as they read now.
Serialise(list, h) == [i \in 1..Len(list) |-> h[list[i]]]

\* Mutant of NewResource: the tenant is taken from the body when it has one.
NewResourceTenantFromBody(user, data, id) ==
  [id |-> id,
   tenant |-> IF data.tenant = Absent THEN users[user].tenant ELSE data.tenant,
   name |-> IF data.name = Absent THEN "None" ELSE data.name,
   type |-> IF data.type = Absent THEN "'document'" ELSE data.type]

\* new_resource of create_resource (app.py:211-216).
NewResource(user, data, id) ==
  [id |-> id,
   tenant |-> users[user].tenant,
   name |-> IF data.name = Absent THEN "None" ELSE data.name,
   type |-> IF data.type = Absent THEN "'document'" ELSE data.type]

\* if 'name' in data: resource['name'] = data['name'] (app.py:250-251)
SetName(h, o, data) ==
  IF data.name # Absent THEN [h EXCEPT ![o].name = data.name] ELSE h

\* Mutant of SetType: the tenant of the body is copied too, as
\* resource.update(data) would.
SetTypeAndTenant(h, o, data) ==
  LET g == IF data.type # Absent THEN [h EXCEPT ![o].type = data.type] ELSE h
  IN  IF data.tenant # Absent THEN [g EXCEPT ![o].tenant = data.tenant] ELSE g

\* if 'type' in data: resource['type'] = data['type'] (app.py:252-253)
SetType(h, o, data) ==
  IF data.type # Absent THEN [h EXCEPT ![o].type = data.type] ELSE h

\* Mutant of WithoutId: the id is taken for a position in the list
\* (del resources[resource_id]).
WithoutIndex(list, h, rid) ==
  [i \in 1..(Len(list) - (IF rid + 1 \in DOMAIN list THEN 1 ELSE 0)) |->
     IF i < rid + 1 THEN list[i] ELSE list[i + 1]]

\* [r for r in resources if r['id'] != resource_id] (app.py:271)
WithoutId(list, h, rid) == SelectSeq(list, LAMBDA o : h[o].id # rid)

(* ------------------------- the tenant directory ----------------------- *)

\* list(tenants.values()): the records in insertion order.
TenantList == <<tenants["acme"], tenants["globex"], tenants["system"]>>

Answer(status, error, resp) ==
  [status |-> status, error |-> error, resp |-> resp]

\* Mutant of ListTenantsAnswer: the tenant admins pass the role check too.
ListTenantsAnswerForAdmins(user) ==
  IF users[user].role \notin {"admin", "superadmin"}
  THEN Answer(403, "Forbidden", <<>>)
  ELSE Answer(200, Absent, TenantList)

\* list_tenants (app.py:277-282)
ListTenantsAnswer(user) ==
  IF users[user].role # "superadmin"
  THEN Answer(403, "Forbidden", <<>>)
  ELSE Answer(200, Absent, TenantList)

\* Mutant of GetTenantAnswer: the caller's tenant is not compared with the
\* id asked for.
GetTenantAnswerNoTenantCheck(user, tid) ==
  IF tid \notin DOMAIN tenants
  THEN Answer(404, "Tenant not found", <<>>)
  ELSE Answer(200, Absent, <<tenants[tid]>>)

\* get_tenant (app.py:286-296)
GetTenantAnswer(user, tid) ==
  IF tid \notin DOMAIN tenants
  THEN Answer(404, "Tenant not found", <<>>)
  ELSE IF users[user].role # "superadmin" /\ users[user].tenant # tid
  THEN Answer(403, "Forbidden", <<>>)
  ELSE Answer(200, Absent, <<tenants[tid]>>)

(* -------------------------------- login ------------------------------- *)

\* Mutant of JwtEncode: the username is put under the claim 'sub', so the
\* payload has no 'username'.
JwtEncodeSubClaim(user) ==
  Token("bearer", "ok", "future", Absent, user.tenant, user.role)

\* jwt.encode of login (app.py:174-179): the username, tenant and role of
\* the user record and an exp 24 hours ahead, signed with SECRET_KEY.
JwtEncode(user) ==
  Token("bearer", "ok", "future", user.username, user.tenant, user.role)

\* login (app.py:159-189). data.get on None and password.encode() on None
\* are AttributeErrors that nothing catches.
LoginAnswer(cred) ==
  IF cred.shape # "object"
  THEN [status |-> 500, error |-> "AttributeError", issued |-> NoToken]
  ELSE IF cred.username \notin DOMAIN users
  THEN [status |-> 401, error |-> "Invalid credentials", issued |-> NoToken]
  ELSE IF cred.password = Absent
  THEN [status |-> 500, error |-> "AttributeError", issued |-> NoToken]
  ELSE IF passwords[cred.username] # Sha256(cred.password)
  THEN [status |-> 401, error |-> "Invalid credentials", issued |-> NoToken]
  ELSE [status |-> 200, error |-> Absent,
        issued |-> JwtEncode(users[cred.username])]

(* ------------------------------ requests ------------------------------ *)

Respond(r, status, error, resp) ==
  [r EXCEPT !.pc = "done", !.status = status, !.error = error, !.resp = resp]

\* The history variable: a step of thread t that changes the store or the
\* counter is counted against the request t is serving.
Observe(t) ==
  /\ writes' = [writes EXCEPT ![t] =
                  IF thr'[t].pc = "idle" THEN 0
                  ELSE IF store' # store THEN @ + 1
                  ELSE @]
  /\ listed' = IF store' # store THEN NoListed
                ELSE IF thr[t].op = "list" /\ thr[t].pc = "handler"
                THEN [user |-> thr[t].user, resp |-> thr'[t].resp,
                      n |-> IF listed.user = thr[t].user
                            THEN listed.n + 1 ELSE 1]
                ELSE listed
  /\ deleted' = IF thr[t].pc = "rebind" /\ thr'[t].status = 200
                 THEN deleted \cup {thr[t].rid}
                 ELSE deleted
  /\ sequential' = (/\ sequential
                    /\ \A t1, t2 \in Threads :
                         t1 # t2 => thr'[t1].pc = "idle" \/ thr'[t2].pc = "idle")
  /\ UNCHANGED client

\* A request arrives on an idle worker; `decorated` runs up to the call of
\* the handler.
Authenticate(t) ==
  /\ thr[t].pc = "idle"
  /\ nreq < MaxRequests
  /\ \E op \in OpsOf(t), tok \in TokensOf(t) :
       LET a == RequireAuth(tok)
           r == [Idle EXCEPT !.op = op, !.tok = tok, !.user = a.user]
       IN  thr' = [thr EXCEPT ![t] =
                     IF a.status = 0
                     THEN [r EXCEPT !.pc = "handler"]
                     ELSE Respond(r, a.status, a.error, <<>>)]
  /\ nreq' = nreq + 1
  /\ UNCHANGED <<heap, resources, next_resource_id>>
  /\ Observe(t)

\* Mutant of SendQuery: the query is posted a second time (one retry).
SendQueryTwice(r, action, o) ==
  [r EXCEPT !.pc = "pdp", !.sent = r.sent + 2,
            !.query = InputData(r.user, action,
                                IF o = 0 THEN NoResource ELSE heap[o])]

\* check_opa_permission up to the point where requests.post() blocks.
SendQuery(r, action, o) ==
  [r EXCEPT !.pc = "pdp", !.sent = r.sent + 1,
            !.query = InputData(r.user, action,
                                IF o = 0 THEN NoResource ELSE heap[o])]

\* Mutant of ListResources: the filtered list is kept as the global list.
ListResourcesRebinding(t) ==
  /\ thr[t].pc = "handler" /\ thr[t].op = "list"
  /\ resources' = Accessible(thr[t].user, resources, heap)
  /\ thr' = [thr EXCEPT ![t] =
               Respond(@, 200, Absent,
                       Serialise(Accessible(@.user, resources, heap), heap))]
  /\ UNCHANGED <<heap, next_resource_id, nreq>>
  /\ Observe(t)

\* GET /api/resources (app.py:193-200)
ListResources(t) ==
  /\ thr[t].pc = "handler" /\ thr[t].op = "list"
  /\ thr' = [thr EXCEPT ![t] =
               Respond(@, 200, Absent,
                       Serialise(Accessible(@.user, resources, heap), heap))]
  /\ UNCHANGED <<heap, resources, next_resource_id, nreq>>
  /\ Observe(t)

\* Mutant of CreateResource: the id is reserved (the counter incremented)
\* before the permission check.
CreateResourceReservesId(t) ==
  /\ thr[t].pc = "handler" /\ thr[t].op = "create"
  /\ thr' = [thr EXCEPT ![t] = SendQuery(@, "create", 0)]
  /\ next_resource_id' = next_resource_id + 1
  /\ UNCHANGED <<heap, resources, nreq>>
  /\ Observe(t)

\* POST /api/resources, up to the blocking call (app.py:204-207)
CreateResource(t) ==
  /\ thr[t].pc = "handler" /\ thr[t].op = "create"
  /\ thr' = [thr EXCEPT ![t] = SendQuery(@, "create", 0)]
  /\ UNCHANGED <<heap, resources, next_resource_id, nreq>>
  /\ Observe(t)

\* Mutant of Lookup: the lookup is made under the caller's tenant lens, so
\* that a resource of another tenant reads as absent.
LookupInTenant(r, rid, action) ==
  LET o == FindResource(Accessible(r.user, resources, heap), heap, rid)
      q == [r EXCEPT !.rid = rid, !.res = o]
  IN  IF o = 0
      THEN Respond(q, 404, "Resource not found", <<>>)
      ELSE SendQuery(q, action, o)

\* The first lines of get_resource, update_resource and delete_resource:
\* the lookup, then 404 or the query with the dict found.
Lookup(r, rid, action) ==
  LET o == FindResource(resources, heap, rid)
      q == [r EXCEPT !.rid = rid, !.res = o]
  IN  IF o = 0
      THEN Respond(q, 404, "Resource not found", <<>>)
      ELSE SendQuery(q, action, o)

\* GET /api/resources/<id>, up to the blocking call (app.py:225-232)
GetResource(t) ==
  /\ thr[t].pc = "handler" /\ thr[t].op = "get"
  /\ \E rid \in ResourceIdsOf(t) :
       thr' = [thr EXCEPT ![t] = Lookup(@, rid, "read")]
  /\ UNCHANGED <<heap, resources, next_resource_id, nreq>>
  /\ Observe(t)

\* PUT /api/resources/<id>, up to the blocking call (app.py:239-246)
UpdateResource(t) ==
  /\ thr[t].pc = "handler" /\ thr[t].op = "update"
  /\ \E rid \in ResourceIdsOf(t) :
       thr' = [thr EXCEPT ![t] = Lookup(@, rid, "update")]
  /\ UNCHANGED <<heap, resources, next_resource_id, nreq>>
  /\ Observe(t)

\* DELETE /api/resources/<id>, up to the blocking call (app.py:259-268)
DeleteResource(t) ==
  /\ thr[t].pc = "handler" /\ thr[t].op = "delete"
  /\ \E rid \in ResourceIdsOf(t) :
       thr' = [thr EXCEPT ![t] = Lookup(@, rid, "delete")]
  /\ UNCHANGED <<heap, resources, next_resource_id, nreq>>
  /\ Observe(t)

\* requests.post() returns or raises; check_opa_permission returns to the
\* handler, which answers 403 unless the value is truthy (app.py:132-149 and
\* `if not check_opa_permission(...)` in each handler).
OpaReply(t) ==
  /\ thr[t].pc = "pdp"
  /\ \E reply \in RepliesOf(t) :
       LET d == CheckOpaPermission(reply)
           r == [thr[t] EXCEPT !.reply = reply, !.decision = d.value]
       IN  thr' = [thr EXCEPT ![t] =
                     IF d.raised # ""
                     THEN Respond(r, 500, d.raised, <<>>)
                     ELSE IF ~Truthy(d.value)
                     THEN Respond(r, 403, "Forbidden", <<>>)
                     ELSE [r EXCEPT !.pc = "allowed"]]
  /\ UNCHANGED <<heap, resources, next_resource_id, nreq>>
  /\ Observe(t)

\* create_resource, app.py:210-216: the body is read and the new dict is
\* built with the counter as it reads now.
CreateBuild(t) ==
  /\ thr[t].pc = "allowed" /\ thr[t].op = "create"
  /\ \E data \in BodiesOf(t) :
       LET r == [thr[t] EXCEPT !.body = data]
       IN  thr' = [thr EXCEPT ![t] =
                     IF data.shape # "object"
                     THEN Respond(r, 500, "AttributeError", <<>>)
                     ELSE [r EXCEPT !.pc = "append",
                             !.newres = NewResource(r.user, data, next_resource_id)]]
  /\ UNCHANGED <<heap, resources, next_resource_id, nreq>>
  /\ Observe(t)

\* resources.append(new_resource) (app.py:218)
CreateAppend(t) ==
  /\ thr[t].pc = "append"
  /\ heap' = Append(heap, thr[t].newres)
  /\ resources' = Append(resources, Len(heap) + 1)
  /\ thr' = [thr EXCEPT ![t] = [@ EXCEPT !.pc = "load", !.res = Len(heap) + 1]]
  /\ UNCHANGED <<next_resource_id, nreq>>
  /\ Observe(t)

\* next_resource_id += 1 (app.py:219) reads the global ...
CreateLoad(t) ==
  /\ thr[t].pc = "load"
  /\ thr' = [thr EXCEPT ![t] = [@ EXCEPT !.pc = "store", !.loaded = next_resource_id]]
  /\ UNCHANGED <<heap, resources, next_resource_id, nreq>>
  /\ Observe(t)

\* ... and writes it back; the handler answers 201 with the new dict.
CreateStore(t) ==
  /\ thr[t].pc = "store"
  /\ next_resource_id' = thr[t].loaded + 1
  /\ thr' = [thr EXCEPT ![t] = Respond(@, 201, Absent, <<heap[@.res]>>)]
  /\ UNCHANGED <<heap, resources, nreq>>
  /\ Observe(t)

\* get_resource after the decision (app.py:235): the snapshot dict is
\* serialised as it reads now.
GetRespond(t) ==
  /\ thr[t].pc = "allowed" /\ thr[t].op = "get"
  /\ thr' = [thr EXCEPT ![t] = Respond(@, 200, Absent, <<heap[@.res]>>)]
  /\ UNCHANGED <<heap, resources, next_resource_id, nreq>>
  /\ Observe(t)

\* update_resource, app.py:249-251: the body is read; 'name' in None is a
\* TypeError.
UpdateName(t) ==
  /\ thr[t].pc = "allowed" /\ thr[t].op = "update"
  /\ \E data \in BodiesOf(t) :
       LET r == [thr[t] EXCEPT !.body = data]
       IN  /\ thr' = [thr EXCEPT ![t] =
                        IF data.shape # "object"
                        THEN Respond(r, 500, "TypeError", <<>>)
                        ELSE [r EXCEPT !.pc = "type"]]
           /\ heap' = IF data.shape = "object"
                      THEN SetName(heap, r.res, data)
                      ELSE heap
  /\ UNCHANGED <<resources, next_resource_id, nreq>>
  /\ Observe(t)

\* update_resource, app.py:252-255: the type is written and the dict is
\* serialised.
UpdateType(t) ==
  /\ thr[t].pc = "type"
  /\ LET h == SetType(heap, thr[t].res, thr[t].body)
     IN  /\ heap' = h
         /\ thr' = [thr EXCEPT ![t] = Respond(@, 200, Absent, <<h[@.res]>>)]
  /\ UNCHANGED <<resources, next_resource_id, nreq>>
  /\ Observe(t)

\* delete_resource, app.py:271: the comprehension builds the new list ...
DeleteFilter(t) ==
  /\ thr[t].pc = "allowed" /\ thr[t].op = "delete"
  /\ thr' = [thr EXCEPT ![t] =
               [@ EXCEPT !.pc = "rebind",
                         !.newlist = WithoutId(resources, heap, thr[t].rid)]]
  /\ UNCHANGED <<heap, resources, next_resource_id, nreq>>
  /\ Observe(t)

\* ... and the global is rebound to it; the handler answers 200.
DeleteRebind(t) ==
  /\ thr[t].pc = "rebind"
  /\ resources' = thr[t].newlist
  /\ thr' = [thr EXCEPT ![t] = Respond(@, 200, Absent, <<>>)]
  /\ UNCHANGED <<heap, next_resource_id, nreq>>
  /\ Observe(t)

\* The response is sent and the request context is torn down.
Finish(t) ==
  /\ thr[t].pc = "done"
  /\ thr' = [thr EXCEPT ![t] = Idle]
  /\ UNCHANGED <<heap, resources, next_resource_id, nreq>>
  /\ Observe(t)

\* GET /api/tenants (app.py:275-282)
ListTenants(t) ==
  /\ thr[t].pc = "handler" /\ thr[t].op = "tenants"
  /\ LET a == ListTenantsAnswer(thr[t].user)
     IN  thr' = [thr EXCEPT ![t] = Respond(@, a.status, a.error, a.resp)]
  /\ UNCHANGED <<heap, resources, next_resource_id, nreq>>
  /\ Observe(t)

\* GET /api/tenants/<tenant_id> (app.py:284-296)
GetTenant(t) ==
  /\ thr[t].pc = "handler" /\ thr[t].op = "tenant"
  /\ \E tid \in TenantIds :
       LET a == GetTenantAnswer(thr[t].user, tid)
       IN  thr' = [thr EXCEPT ![t] =
                     Respond([@ EXCEPT !.tid = tid], a.status, a.error, a.resp)]
  /\ UNCHANGED <<heap, resources, next_resource_id, nreq>>
  /\ Observe(t)

\* POST /api/auth/login (app.py:157-189): the route is not wrapped by
\* require_auth.
Login(t) ==
  /\ thr[t].pc = "idle"
  /\ nreq < MaxRequests
  /\ \E cred \in CredsOf(t) :
       LET a == LoginAnswer(cred)
       IN  thr' = [thr EXCEPT ![t] =
                     Respond([Idle EXCEPT !.op = "login", !.cred = cred,
                                          !.issued = a.issued],
                             a.status, a.error, <<>>)]
  /\ nreq' = nreq + 1
  /\ UNCHANGED <<heap, resources, next_resource_id>>
  /\ Observe(t)

\* One step of the request worker thread t is serving.
Step(t) ==
  \/ Authenticate(t)
  \/ Login(t)
  \/ ListResources(t)
  \/ CreateResource(t)
  \/ GetResource(t)
  \/ UpdateResource(t)
  \/ DeleteResource(t)
  \/ ListTenants(t)
  \/ GetTenant(t)
  \/ OpaReply(t)
  \/ CreateBuild(t)
  \/ CreateAppend(t)
  \/ CreateLoad(t)
  \/ CreateStore(t)
  \/ GetRespond(t)
  \/ UpdateName(t)
  \/ UpdateType(t)
  \/ DeleteFilter(t)
  \/ DeleteRebind(t)
  \/ Finish(t)

Next == \E t \in Threads : Step(t)

Spec == Init /\ [][Next]_vars

(* ------------- the standalone client (opa-simple/app.py) -------------- *)

\* The arguments main() calls the client with.
ClientUsers == {"alice", "bob", "charlie"}
ClientActions == {"read", "write", "delete"}
ClientResources == {"document123", "document456"}

\* The "result" member a policy path may answer with: the repr of a
\* boolean for authz/allow, of a list of actions for authz/allowed_actions.
ClientResults(call) ==
  IF call = "check_permission"
  THEN {"True", "False", Absent}
  ELSE {"['read']", "[]", Absent}

\* What requests.post() ends in for the client: a transport failure, or a
\* reply with a 2xx, 3xx, 4xx or 5xx status.
ClientReplies(call) ==
     { Reply("ConnectionError", 0, Absent, Absent),
       Reply("Timeout", 0, Absent, Absent),
       Reply("", 200, "notjson", Absent),
       Reply("", 204, "notjson", Absent),
       Reply("", 200, "list", Absent) }
  \cup { Reply("", s, "object", v) :
           s \in {200, 300, 404, 500}, v \in ClientResults(call) }

\* response.raise_for_status(): HTTPError for a 4xx or 5xx status, nothing
\* for any other status.
RaiseForStatus(reply) ==
  IF reply.status >= 400 /\ reply.status < 600 THEN "HTTPError" ELSE ""

\* The try/except the two methods share (opa-simple/app.py:50-58, 79-87):
\* a RequestException (connection error, timeout, HTTPError, a body that is
\* not JSON) gives `default`; .get on a body that is not an object is an
\* AttributeError, which is not caught; otherwise result.get("result",
\* default).
ClientResult(reply, default) ==
  IF reply.err # ""
  THEN [raised |-> "", value |-> default]
  ELSE IF RaiseForStatus(reply) # ""
  THEN [raised |-> "", value |-> default]
  ELSE IF reply.shape = "notjson"
  THEN [raised |-> "", value |-> default]
  ELSE IF reply.shape # "object"
  THEN [raised |-> "AttributeError", value |-> Absent]
  ELSE IF reply.result = Absent
  THEN [raised |-> "", value |-> default]
  ELSE [raised |-> "", value |-> reply.result]

\* OPAClient.check_permission (opa-simple/app.py:29-58)
check_permission(reply) == ClientResult(reply, "False")

\* OPAClient.get_allowed_actions (opa-simple/app.py:60-87)
get_allowed_actions(reply) == ClientResult(reply, "[]")

UnchangedApp ==
  UNCHANGED <<heap, resources, next_resource_id, thr, nreq, writes, listed,
              deleted, sequential>>

\* check_permission(user, action, resource) up to the blocking post.
CallCheckPermission ==
  /\ client.pc = "idle"
  /\ \E u \in ClientUsers, a \in ClientActions, r \in ClientResources :
       client' = [ClientIdle EXCEPT !.pc = "post", !.call = "check_permission",
                                    !.user = u, !.action = a, !.resource = r]
  /\ UnchangedApp

\* get_allowed_actions(user, resource) up to the blocking post.
CallGetAllowedActions ==
  /\ client.pc = "idle"
  /\ \E u \in ClientUsers, r \in ClientResources :
       client' = [ClientIdle EXCEPT !.pc = "post",
                                    !.call = "get_allowed_actions",
                                    !.user = u, !.resource = r]
  /\ UnchangedApp

\* requests.post() returns or raises and the method returns or raises.
ClientPostEnds ==
  /\ client.pc = "post"
  /\ \E reply \in ClientReplies(client.call) :
       LET a == IF client.call = "check_permission"
                THEN check_permission(reply)
                ELSE get_allowed_actions(reply)
       IN  client' = [client EXCEPT !.pc = "returned", !.reply = reply,
                                    !.raised = a.raised, !.value = a.value]
  /\ UnchangedApp

\* main() goes on to its next call.
ClientNextCall ==
  /\ client.pc = "returned"
  /\ client' = ClientIdle
  /\ UnchangedApp

ClientNext ==
  \/ CallCheckPermission
  \/ CallGetAllowedActions
  \/ ClientPostEnds
  \/ ClientNextCall

ClientSpec == Init /\ [][ClientNext]_vars

(* ----------------------------- properties ----------------------------- *)

Gated == {"create", "get", "update", "delete"}

ActionOf(op) ==
  CASE op = "create" -> "create"
    [] op = "get"    -> "read"
    [] op = "update" -> "update"
    [] op = "delete" -> "delete"
    [] OTHER         -> Absent

\* The PDP call ended in a connection error, a timeout or a non-2xx status.
Fault(reply) ==
  \/ reply.err \in {"ConnectionError", "Timeout"}
  \/ reply.err = "" /\ reply.status \notin 200..299

\* The PDP answered 200 with a body that is not {"result": ...}.
Malformed(reply) ==
  /\ reply.err = "" /\ reply.status = 200
  /\ \/ reply.shape \in {"notjson", "list", "scalar"}
     \/ reply.shape = "object" /\ reply.result = Absent

\* The PDP answered with the expected shape and a decision of true.
TrueDecision(reply) ==
  /\ reply.err = "" /\ reply.status \in 200..299
  /\ reply.shape = "object" /\ reply.result = "True"

Denied(r) == r.pc = "done" /\ r.status = 403

Range(f) == { f[i] : i \in DOMAIN f }

\* C1: a PDP-gated request whose PDP call ends in a connection error, a
\* timeout or a non-2xx status gets the decision False, ends in 403, and has
\* changed neither the store nor the id counter, whoever the caller is.
C1_FailClosedOnFault ==
  \A t \in Threads :
    Fault(thr[t].reply) =>
      /\ thr[t].op \in Gated
      /\ thr[t].decision = "False"
      /\ Denied(thr[t])
      /\ writes[t] = 0

\* A superadmin's create is answered 403 when the PDP answers HTTP 500.
C1_Witness ==
  \E t \in Threads :
    /\ thr[t].reply = Reply("", 500, "object", Absent)
    /\ thr[t].op = "create" /\ thr[t].user = "root"
    /\ thr[t].status = 403

\* C2: for every PDP reply with a malformed body (not JSON, JSON that is not
\* an object, an object without "result") the decision function returns
\* False as a value, and the request ends in 403.
C2_MalformedBodyIsDenied ==
  \A t \in Threads :
    Malformed(thr[t].reply) =>
      thr[t].decision = "False" /\ Denied(thr[t])

\* C3: the value the decision function returns is always a boolean, and a
\* request is let through only on a reply {"result": true}: any other
\* "result" is a deny.
C3_AllowOnlyOnBooleanTrue ==
  \A t \in Threads :
    (thr[t].reply # NoReply /\ thr[t].decision # Absent) =>
      /\ thr[t].decision \in {"True", "False"}
      /\ ~TrueDecision(thr[t].reply) => Denied(thr[t])

\* C4: the dict a create has appended, and the one it returns with 201,
\* carry the tenant of the user record of the token's username, whatever
\* the body says.
C4_TenantStamping ==
  \A t \in Threads :
    (thr[t].op = "create" /\ thr[t].res # 0) =>
      /\ heap[thr[t].res].tenant = users[thr[t].tok.username].tenant
      /\ thr[t].status = 201 =>
           thr[t].resp[1].tenant = users[thr[t].tok.username].tenant

\* bob (acme) has created a resource with a body that names tenant globex.
C4_Witness ==
  \E t \in Threads :
    /\ thr[t].op = "create" /\ thr[t].status = 201
    /\ thr[t].tok.username = "bob"
    /\ thr[t].body.tenant = "globex"
    /\ thr[t].resp[1].tenant = "acme"
    /\ heap[thr[t].res].tenant = "acme"

\* C5: the step that answers a list returns, for a caller who is not
\* superadmin, exactly the resources of the store whose tenant is the
\* caller's, and for a superadmin every resource of the store; on the
\* seeded store bob gets the two acme resources.
ListAnswer(t) ==
  thr[t].pc = "handler" /\ thr[t].op = "list" /\ thr'[t].pc = "done"

C5_TenantScopedListing ==
  [][\A t \in Threads :
       ListAnswer(t) =>
         LET u == users[thr[t].tok.username]
             all == { heap[o] : o \in Range(resources) }
             got == Range(thr'[t].resp)
         IN  /\ thr'[t].status = 200
             /\ u.role # "superadmin" =>
                  got = { r \in all : r.tenant = u.tenant }
             /\ u.role = "superadmin" =>
                  got = all /\ Len(thr'[t].resp) = Len(resources)
             /\ (thr[t].tok.username = "bob"
                   /\ heap = SeedResources /\ resources = <<1, 2, 3, 4>>) =>
                  thr'[t].resp = <<SeedResources[1], SeedResources[2]>>]_vars

\* bob has listed a store that holds a third acme resource next to the
\* globex ones.
C5_Witness ==
  \E t \in Threads :
    /\ thr[t].op = "list" /\ thr[t].status = 200
    /\ thr[t].tok.username = "bob"
    /\ Len(thr[t].resp) = 3
    /\ \A i \in 1..3 : thr[t].resp[i].tenant = "acme"
    /\ \E o \in Range(resources) : heap[o].tenant = "globex"

\* C6: a get by a caller who is not superadmin, of a resource of another
\* tenant, ends in 403 or 404 unless the PDP returned true for that
\* request, and returns the resource's data only after a true decision.
CrossTenant(r) ==
  /\ r.res # 0
  /\ users[r.user].role # "superadmin"
  /\ heap[r.res].tenant # users[r.user].tenant

C6_GetIsolation ==
  \A t \in Threads :
    (thr[t].op = "get" /\ thr[t].pc = "done" /\ CrossTenant(thr[t])) =>
      /\ thr[t].status \in {403, 404} \/ TrueDecision(thr[t].reply)
      /\ thr[t].resp # <<>> => TrueDecision(thr[t].reply)

\* C7: a request changes the store only after the PDP has decided true on
\* the query for its own action.
C7_MutationNeedsTrueDecision ==
  \A t \in Threads :
    writes[t] > 0 =>
      /\ thr[t].sent = 1
      /\ thr[t].query.action = ActionOf(thr[t].op)
      /\ TrueDecision(thr[t].reply)

\* C8: no step changes the tenant or the id of a resource dict; an update
\* changes at most its name and type.
C8_TenantImmutable ==
  [][\A o \in 1..Len(heap) :
       /\ heap'[o].tenant = heap[o].tenant
       /\ heap'[o].id = heap[o].id]_vars

\* charlie's update of an acme resource, with a body that carries tenant
\* and id next to name and type, has changed the name and type only.
C8_Witness ==
  \E t \in Threads :
    /\ thr[t].op = "update" /\ thr[t].status = 200
    /\ thr[t].body.tenant = "globex" /\ thr[t].body.id = "1"
    /\ thr[t].user = "charlie"
    /\ heap[thr[t].res] =
         [id |-> 1, tenant |-> "acme", name |-> "'n1'", type |-> "'t1'"]

\* C9: a request whose token is correctly signed and has an exp claim in
\* the past is answered 401 "Token expired", even for a user the directory
\* holds; it sends no PDP query and does nothing to the store.
C9_ExpiredTokenRejected ==
  \A t \in Threads :
    (thr[t].tok.hdr = "bearer" /\ thr[t].tok.sig = "ok"
       /\ thr[t].tok.exp = "past") =>
      /\ thr[t].pc = "done"
      /\ thr[t].status = 401 /\ thr[t].error = "Token expired"
      /\ thr[t].sent = 0 /\ thr[t].res = 0 /\ thr[t].resp = <<>>
      /\ writes[t] = 0

\* bob's own token, after its expiry, has been rejected.
C9_Witness ==
  \E t \in Threads :
    /\ thr[t].tok = IssuedToken("bob", "past")
    /\ thr[t].tok.username \in DOMAIN users
    /\ thr[t].status = 401

\* C10: a request whose token is correctly signed and not expired, and
\* names a user the directory does not hold, is answered 401 without a PDP
\* query or a store operation.
C10_UnknownPrincipalRejected ==
  \A t \in Threads :
    (thr[t].tok.hdr = "bearer" /\ thr[t].tok.sig = "ok"
       /\ thr[t].tok.exp = "future"
       /\ thr[t].tok.username # Absent
       /\ thr[t].tok.username \notin DOMAIN users) =>
      /\ thr[t].pc = "done"
      /\ thr[t].status = 401 /\ thr[t].error = "User not found"
      /\ thr[t].sent = 0 /\ thr[t].res = 0 /\ thr[t].resp = <<>>
      /\ writes[t] = 0

\* A valid token for "mallory", who is not in the directory, was rejected.
C10_Witness ==
  \E t \in Threads :
    /\ thr[t].tok.username = "mallory"
    /\ thr[t].tok.sig = "ok" /\ thr[t].tok.exp = "future"
    /\ thr[t].status = 401

\* C11: a bearer token whose signature does not match, or whose claims are
\* malformed (a correctly signed, unexpired token without a username
\* claim), is answered 401 "Invalid token" and reaches no handler.
C11_InvalidTokenRejected ==
  \A t \in Threads :
    (/\ thr[t].tok.hdr = "bearer"
     /\ \/ thr[t].tok.sig # "ok"
        \/ thr[t].tok.exp = "future" /\ thr[t].tok.username = Absent) =>
      /\ thr[t].pc = "done"
      /\ thr[t].status = 401 /\ thr[t].error = "Invalid token"

\* C12: a request to a bearer-protected route with no Authorization header,
\* or with one that does not start with 'Bearer ', is answered 401; and a
\* request answered 401 has run no handler step: it has sent no PDP query,
\* looked nothing up in the store and changed nothing.
C12_AuthenticationFirst ==
  \A t \in Threads :
    /\ thr[t].tok.hdr \in {"none", "other"} =>
         thr[t].pc = "done" /\ thr[t].status = 401
    /\ thr[t].status = 401 =>
         /\ thr[t] = Respond([Idle EXCEPT !.op = thr[t].op, !.tok = thr[t].tok,
                                          !.cred = thr[t].cred],
                             401, thr[t].error, <<>>)
         /\ writes[t] = 0

\* A delete that came with a header that is not a bearer token was rejected.
C12_Witness ==
  \E t \in Threads :
    /\ thr[t].tok.hdr = "other" /\ thr[t].op = "delete"
    /\ thr[t].status = 401 /\ thr[t].sent = 0 /\ thr[t].res = 0

\* C13: the resources ever created have ids in strictly increasing order
\* of creation: no two of them share an id, under any interleaving.
C13_UniqueIncreasingIds ==
  \A o1, o2 \in 1..Len(heap) :
    o1 < o2 => heap[o1].id < heap[o2].id

\* C14 (as stated): a delete by a caller who is not superadmin, of an id that
\* exists under another tenant, ends in 404 and the resource stays in the
\* store.
C14_CrossTenantDelete404 ==
  \A t \in Threads :
    (thr[t].op = "delete" /\ thr[t].pc = "done" /\ CrossTenant(thr[t])) =>
      /\ thr[t].status = 404
      /\ thr[t].res \in Range(resources)

\* The resource of another tenant that the lookup of rid returns to user:
\* 0 when the id is absent, belongs to the caller's tenant, or the caller
\* is a superadmin.
ForeignResource(user, rid) ==
  LET o == FindResource(resources, heap, rid)
  IN  IF o # 0 /\ users[user].role # "superadmin"
              /\ heap[o].tenant # users[user].tenant
      THEN o ELSE 0

\* C14 (amended): a delete by a caller who is not superadmin, of an id that
\* exists under another tenant, is never answered 404: the lookup finds the
\* resource whatever its tenant and the request goes to the PDP with the
\* action delete and that resource; when the decision function returns a
\* falsy value the request ends in 403 without having changed the store.
C14_CrossTenantDeleteIsGated ==
  [][\A t \in Threads :
       /\ (/\ thr[t].pc = "handler" /\ thr[t].op = "delete"
           /\ thr'[t] # thr[t]
           /\ ForeignResource(thr[t].user, thr'[t].rid) # 0) =>
            /\ thr'[t].pc = "pdp"
            /\ thr'[t].status # 404
            /\ thr'[t].res = ForeignResource(thr[t].user, thr'[t].rid)
            /\ thr'[t].query.action = "delete"
            /\ thr'[t].query.resource = heap[thr'[t].res]
       /\ (/\ thr[t].pc = "pdp" /\ thr[t].op = "delete"
           /\ thr'[t] # thr[t]
           /\ CrossTenant(thr[t])
           /\ ~Truthy(thr'[t].decision)) =>
            /\ thr'[t].pc = "done" /\ thr'[t].status = 403
            /\ writes'[t] = 0
            /\ store' = store
  ]_vars

\* bob (acme, user) has asked to delete resource 3 (globex), was answered
\* 403 after a False decision, and resource 3 is still in the store.
C14_Witness ==
  \E t \in Threads :
    /\ thr[t].op = "delete" /\ thr[t].user = "bob" /\ thr[t].rid = 3
    /\ thr[t].pc = "done" /\ thr[t].status = 403
    /\ thr[t].decision = "False"
    /\ FindResource(resources, heap, 3) # 0

\* C15: list-tenants by an authenticated caller who is not superadmin ends
\* in 403 and returns no tenant data; by a superadmin it ends in 200 with
\* every tenant of the directory (3 of them); it never issues a PDP query.
C15_TenantListingSuperadminOnly ==
  \A t \in Threads :
    (thr[t].op = "tenants" /\ thr[t].pc = "done" /\ thr[t].user # NoUser) =>
      /\ thr[t].sent = 0
      /\ users[thr[t].user].role # "superadmin" =>
           thr[t].status = 403 /\ thr[t].resp = <<>>
      /\ users[thr[t].user].role = "superadmin" =>
           /\ thr[t].status = 200
           /\ Range(thr[t].resp) = { tenants[x] : x \in DOMAIN tenants }
           /\ Len(thr[t].resp) = 3

\* root has listed the tenants and received three records.
C15_Witness ==
  \E t \in Threads :
    /\ thr[t].op = "tenants" /\ thr[t].user = "root"
    /\ thr[t].pc = "done" /\ thr[t].status = 200
    /\ Len(thr[t].resp) = 3

\* C16: get-tenant returns the tenant record only to a superadmin or to a
\* caller of that tenant (and does return it to them); an unknown id ends
\* in 404, and an existing id asked for by a non-superadmin of another
\* tenant ends in 403.
C16_GetTenantRule ==
  \A t \in Threads :
    (thr[t].op = "tenant" /\ thr[t].pc = "done" /\ thr[t].user # NoUser) =>
      LET u == users[thr[t].user]
          permitted == u.role = "superadmin" \/ u.tenant = thr[t].tid
      IN  /\ thr[t].sent = 0
          /\ thr[t].resp # <<>> =>
               /\ permitted
               /\ thr[t].resp = <<tenants[thr[t].tid]>>
          /\ thr[t].tid \notin DOMAIN tenants =>
               thr[t].status = 404 /\ thr[t].resp = <<>>
          /\ (thr[t].tid \in DOMAIN tenants /\ ~permitted) =>
               thr[t].status = 403 /\ thr[t].resp = <<>>
          /\ (thr[t].tid \in DOMAIN tenants /\ permitted) =>
               thr[t].status = 200 /\ thr[t].resp = <<tenants[thr[t].tid]>>

\* bob (acme) has asked for the tenant globex and was answered 403.
C16_Witness ==
  \E t \in Threads :
    /\ thr[t].op = "tenant" /\ thr[t].user = "bob" /\ thr[t].tid = "globex"
    /\ thr[t].pc = "done" /\ thr[t].status = 403

\* C17: a list answer leaves the store and the id counter unchanged, and
\* it holds the same set of resources as the previous list answer given to
\* the same caller when no create, update or delete has changed the store
\* since that answer.
C17_IdempotentListing ==
  [][\A t \in Threads :
       ListAnswer(t) =>
         /\ store' = store
         /\ listed.user = thr[t].user =>
              Range(thr'[t].resp) = Range(listed.resp)
         /\ listed'.resp = thr'[t].resp]_vars

\* bob has been given two list answers in a row over a store that no
\* request has changed between them, the second one holding his tenant's
\* two resources.
C17_Witness ==
  \E t \in Threads :
    /\ thr[t].op = "list" /\ thr[t].pc = "done" /\ thr[t].user = "bob"
    /\ listed.user = "bob" /\ listed.n = 2
    /\ Len(thr[t].resp) = 2

\* No resource of the store has the id rid.
UnknownId(rid) == \A o \in Range(resources) : heap[o].id # rid

\* C18: a get, update or delete of an id that no resource of the store has
\* ends in 404 whoever the caller is, with no PDP query made and the store
\* unchanged; and while requests are served one after another, a get,
\* update or delete of an id whose delete was answered 200 ends in 404.
C18_UnknownIdIsNotFound ==
  [][\A t \in Threads :
       (/\ thr[t].pc = "handler" /\ thr[t].op \in {"get", "update", "delete"}
        /\ thr'[t] # thr[t]) =>
         /\ UnknownId(thr'[t].rid) =>
              /\ thr'[t].pc = "done" /\ thr'[t].status = 404
              /\ thr'[t].sent = 0
              /\ store' = store /\ writes'[t] = 0
         /\ (sequential /\ thr'[t].rid \in deleted) =>
              /\ UnknownId(thr'[t].rid)
              /\ thr'[t].pc = "done" /\ thr'[t].status = 404]_vars

\* Resource 1 was deleted with a 200 answer and a second delete of id 1,
\* served after it, was answered 404.
C18_Witness ==
  \E t \in Threads :
    /\ sequential /\ 1 \in deleted
    /\ thr[t].op = "delete" /\ thr[t].rid = 1
    /\ thr[t].pc = "done" /\ thr[t].status = 404 /\ thr[t].sent = 0

\* C19: no login, and no create or update that has read its JSON body,
\* ends in an exception that left the handler unhandled (Flask's 500):
\* each ends in one of the converted statuses (401, 403, 404, 2xx or a
\* validation error 400/422), also when the body is missing or is not an
\* object and when a login body has no password.
C19_NoInternalErrorEscapes ==
  \A t \in Threads :
    (/\ thr[t].pc = "done"
     /\ \/ thr[t].op = "login"
        \/ thr[t].op \in {"create", "update"} /\ thr[t].body # NoBody) =>
      thr[t].status \in {200, 201, 400, 401, 403, 404, 422}

\* The credentials name a user of the directory with that user's password.
CorrectCredentials(cred) ==
  /\ cred.shape = "object"
  /\ cred.username \in DOMAIN users
  /\ cred.password # Absent
  /\ passwords[cred.username] = Sha256(cred.password)

\* C20: the token a login with a directory user's correct credentials
\* issues is accepted by the authenticator until its expiry (and rejected
\* as expired after it) and resolves to that same user's caller context;
\* a login with an unknown username or a wrong password ends in 401 and
\* issues no token.
C20_IssueVerifyRoundTrip ==
  \A t \in Threads :
    (thr[t].op = "login" /\ thr[t].pc = "done") =>
      LET cred == thr[t].cred
          tok == thr[t].issued
      IN  /\ CorrectCredentials(cred) =>
               /\ thr[t].status = 200
               /\ tok # NoToken
               /\ RequireAuth(tok).status = 0
               /\ users[RequireAuth(tok).user] = users[cred.username]
               /\ tok.tenant = users[cred.username].tenant
               /\ tok.role = users[cred.username].role
               /\ RequireAuth([tok EXCEPT !.exp = "past"]) =
                    [status |-> 401, error |-> "Token expired", user |-> NoUser]
          /\ (/\ cred.shape = "object"
              /\ \/ cred.username \notin DOMAIN users
                 \/ cred.password # Absent /\ ~CorrectCredentials(cred)) =>
               thr[t].status = 401 /\ tok = NoToken
          /\ tok # NoToken => CorrectCredentials(cred)

\* diana has logged in with her password and holds a token.
C20_Witness ==
  \E t \in Threads :
    /\ thr[t].op = "login" /\ thr[t].pc = "done" /\ thr[t].status = 200
    /\ thr[t].cred = Cred("object", "diana", "diana123")
    /\ thr[t].issued # NoToken

\* C21: an update or a delete reports success only for a resource that is
\* in the store when it answers: the existence of the id is checked again
\* after the positive decision, so that a concurrent delete completed while
\* the request waited on the PDP turns the success into a 404.
C21_ExistenceRecheckedAfterDecision ==
  [][\A t \in Threads :
       /\ (/\ thr[t].op \in {"update", "delete"}
           /\ thr[t].pc = "allowed" /\ thr'[t].pc \in {"type", "rebind"}) =>
            thr[t].res \in Range(resources)
       /\ (/\ thr[t].op \in {"update", "delete"}
           /\ thr[t].pc # "done" /\ thr'[t].pc = "done"
           /\ thr'[t].status = 200) =>
            thr[t].res \in Range(resources)]_vars

\* C22: a resource whose create was answered 201 is in the store until a
\* delete of its own id has succeeded; a concurrent delete of another id
\* does not remove it.
C22_NoLostCreate ==
  \A t \in Threads :
    (/\ thr[t].op = "create" /\ thr[t].pc = "done" /\ thr[t].status = 201
     /\ thr[t].newres.id \notin deleted) =>
      /\ thr[t].res \in Range(resources)
      /\ heap[thr[t].res] \in
           Range(Serialise(Accessible(thr[t].user, resources, heap), heap))

\* C23: once a delete of an id has been answered with success, the store,
\* which every later list and get reads, holds no resource with that id,
\* whatever deletes of other ids run concurrently.
C23_NoResurrectedDelete ==
  \A rid \in deleted : UnknownId(rid)

\* C24: a list or get answered while another request updates both the name
\* and the type of a resource returns that resource with both new values
\* or with neither, never with one of them only.
C24_NoTornReads ==
  \A t \in Threads :
    (thr[t].op \in {"list", "get"} /\ thr[t].pc = "done"
       /\ thr[t].status = 200) =>
      \A i \in DOMAIN thr[t].resp : \A u \in Threads \ {t} :
        (/\ thr[u].op = "update"
         /\ thr[u].body.name # Absent /\ thr[u].body.type # Absent
         /\ thr[u].rid = thr[t].resp[i].id) =>
          (thr[t].resp[i].name = thr[u].body.name
             <=> thr[t].resp[i].type = thr[u].body.type)

\* The stage of the request pipeline a worker thread is at:
\* Unauthenticated (0, not yet through require_auth), Authenticated (1),
\* Policy-Checked (2 while the query is out, 3 once it is decided), Executed
\* (4, the handler is writing) and terminal (5, the response is made).
Stage(pc) ==
  CASE pc = "idle"    -> 0
    [] pc = "handler" -> 1
    [] pc = "pdp"     -> 2
    [] pc = "allowed" -> 3
    [] pc \in {"append", "load", "store", "type", "rebind"} -> 4
    [] pc = "done"    -> 5

\* C25: a request only moves forward through the stages, ends in one of the
\* terminal states Rejected(401), Forbidden(403), NotFound(404) or
\* Completed(2xx), and does not leave its terminal state (the worker only
\* drops it).
C25_RequestStateMachine ==
  [][\A t \in Threads :
       /\ thr'[t].pc # "idle" => Stage(thr'[t].pc) >= Stage(thr[t].pc)
       /\ thr'[t].pc = "done" => thr'[t].status \in {401, 403, 404, 200, 201}
       /\ thr[t].pc = "done" => thr'[t] \in {thr[t], Idle}]_vars

\* C26: a create, get, update or delete sends at most one query to the PDP,
\* exactly one once it is past authentication and the existence check and
\* none before; after the reply, fault or not, it sends no other; it acts
\* only on the decision computed from the reply to its own query; list,
\* list-tenants, get-tenant and login send none.
C26_SinglePdpAttempt ==
  \A t \in Threads :
    LET r == thr[t]
        past == /\ r.user # NoUser
                /\ r.pc \notin {"idle", "handler"}
                /\ r.op = "create" \/ r.res # 0
    IN  /\ r.sent <= 1
        /\ r.op \notin Gated => r.sent = 0 /\ r.reply = NoReply
        /\ r.op \in Gated => (r.sent = 1 <=> past)
        /\ r.reply # NoReply => r.sent = 1 /\ r.pc # "pdp"
        /\ Fault(r.reply) => r.pc = "done"
        /\ r.pc \in {"allowed", "append", "load", "store", "type", "rebind"} =>
             /\ r.reply # NoReply
             /\ r.decision = CheckOpaPermission(r.reply).value
        /\ r.sent = 1 =>
             /\ r.query.action = ActionOf(r.op)
             /\ r.query.user.username = r.user
        /\ r.pc = "idle" => r = Idle

\* A get was answered 403 after its one query timed out.
C26_Witness ==
  \E t \in Threads :
    /\ thr[t].op = "get" /\ thr[t].pc = "done" /\ thr[t].status = 403
    /\ thr[t].reply = Reply("Timeout", 0, Absent, Absent)
    /\ thr[t].sent = 1

\* C27: a request that ends in 401, 403 or 404, and a get, list, login,
\* list-tenants or get-tenant request whatever it ends in, has changed
\* neither the resource list, nor a resource, nor the id counter (the user
\* and tenant directories are assigned nowhere).
C27_FrameOnFailure ==
  \A t \in Threads :
    (\/ thr[t].pc = "done" /\ thr[t].status \in {401, 403, 404}
     \/ thr[t].op \in {"get", "list", "login", "tenants", "tenant"}) =>
      writes[t] = 0

\* An update of an existing resource was denied by the PDP and has written
\* nothing.
C27_Witness ==
  \E t \in Threads :
    /\ thr[t].op = "update" /\ thr[t].pc = "done" /\ thr[t].status = 403
    /\ thr[t].res # 0 /\ thr[t].sent = 1
    /\ writes[t] = 0

\* C28: every enforcement step of a request uses the tenant and role of the
\* directory record of the token's username, whatever tenant and role
\* claims the token carries: the caller context, the user fields and the
\* synthesized resource of the PDP query, the tenant stamped on a new
\* resource, the list filter and the tenant RBAC checks; and the
\* authenticator answers a token as it answers the token login issues for
\* the same username.
C28_DirectoryNotClaims ==
  \A t \in Threads :
    LET r == thr[t] IN
    (r.tok.hdr = "bearer" /\ r.tok.sig = "ok"
       /\ r.tok.username \in DOMAIN users) =>
      LET u == users[r.tok.username] IN
      /\ RequireAuth(r.tok) = RequireAuth(IssuedToken(r.tok.username, r.tok.exp))
      /\ r.tok.exp = "future" => r.user = r.tok.username
      /\ r.sent = 1 =>
           /\ r.query.user = [id |-> u.id, username |-> u.username,
                              tenant |-> u.tenant, role |-> u.role]
           /\ r.op = "create" => r.query.resource.tenant = u.tenant
      /\ r.newres # NoResource => r.newres.tenant = u.tenant
      /\ (r.op = "list" /\ r.pc = "done" /\ u.role # "superadmin") =>
           \A i \in DOMAIN r.resp : r.resp[i].tenant = u.tenant
      /\ (r.op = "tenants" /\ r.pc = "done") =>
           (r.status = 200 <=> u.role = "superadmin")
      /\ (r.op = "tenant" /\ r.pc = "done" /\ r.tid \in DOMAIN tenants) =>
           (r.status = 200 <=> (u.role = "superadmin" \/ u.tenant = r.tid))

\* A request with a validly signed token for bob that claims the tenant
\* globex and the role superadmin has listed resources and got bob's
\* tenant's two only.
C28_Witness ==
  \E t \in Threads :
    /\ thr[t].tok = Token("bearer", "ok", "future", "bob", "globex", "superadmin")
    /\ thr[t].op = "list" /\ thr[t].pc = "done" /\ thr[t].status = 200
    /\ Len(thr[t].resp) = 2
    /\ \A i \in DOMAIN thr[t].resp : thr[t].resp[i].tenant = "acme"

\* C29: in every reachable state the id counter is strictly greater than
\* the id of every resource of the store, and no step decreases it.
C29_CounterAboveEveryId ==
  [][/\ \A o \in Range(resources) : heap[o].id < next_resource_id
     /\ \A o \in Range(resources') : heap'[o].id < next_resource_id'
     /\ next_resource_id' >= next_resource_id]_vars

\* C30: the standalone client fails closed: when the request to OPA ends in
\* a connection error, a timeout or a non-2xx status, check_permission
\* returns False and get_allowed_actions returns the empty list; and
\* check_permission returns True only when OPA answered with a result of
\* true.
C30_ClientFailsClosed ==
  client.pc = "returned" =>
    /\ Fault(client.reply) =>
         /\ client.raised = ""
         /\ client.call = "check_permission" => client.value = "False"
         /\ client.call = "get_allowed_actions" => client.value = "[]"
    /\ (client.call = "check_permission" /\ client.value = "True") =>
         TrueDecision(client.reply)

====
